---- MODULE Spec2Model ----
(***************************************************************************)
(* Model of the meta.json normalisation pipeline: the simple script        *)
(* dedupe-and-sort-meta.js (dedupeAndSortMeta) and the configurable        *)
(* build script process-meta.js (class MetaProcessor).                     *)
(*                                                                         *)
(* Strings are sequences of UTF-16 code units (integers), JSON values are  *)
(* tagged records, and file contents are sequences of JSON tokens, so that *)
(* JSON.parse and JSON.stringify are modelled by what they do.  Where two  *)
(* processes share a file, its content is read and written as the bytes of *)
(* those tokens.                                                           *)
(***************************************************************************)
EXTENDS Integers, Sequences, FiniteSets, TLC

(***************************************************************************)
(* Bounds of the model.                                                    *)
(***************************************************************************)
\* longest input array of the pipeline specification
MaxLen == 2
\* longest input array handed directly to the dedupe-and-sort step
MaxPureLen == 3
\* longest array handed directly to formatJSON
MaxFmtLen == 6
\* invocations in a row on the same file
MaxRuns == 2
\* largest value Date.now() returns
MaxClock == 2
\* longest input array of the runs that the summary is checked on
MaxSumLen == 4
\* the longest array in the file two invocations run on at the same time
MaxConcLen == 2

(***************************************************************************)
(* Strings: sequences of code units.  S_x is the string "x", S_us is "_",  *)
(* K_x is the property name "x".                                           *)
(***************************************************************************)
S_a == <<97>>
S_A == <<65>>
S_b == <<98>>
S_B == <<66>>
S_us == <<95>>
S_ab == <<97, 98>>
S_Ab == <<65, 98>>
S_empty == <<>>
K_id == <<105, 100>>
K_name == <<110, 97, 109, 101>>
K_tags == <<116, 97, 103, 115>>
K_version == <<118, 101, 114, 115, 105, 111, 110>>
K_description == <<100, 101, 115, 99, 114, 105, 112, 116, 105, 111, 110>>
K_links == <<108, 105, 110, 107, 115>>
K_logo == <<108, 111, 103, 111>>
K_github == <<103, 105, 116, 104, 117, 98>>
S_Unknown == <<85, 110, 107, 110, 111, 119, 110>>
S_N1 == <<78, 49>>
S_N2 == <<78, 50>>

K_7 == <<55>>
K_toString == <<116, 111, 83, 116, 114, 105, 110, 103>>
S_Eacute == <<201>>
S_times == <<215>>

\* the largest code unit of the strings of the model: U+024F, the end of the
\* Latin Extended-B block
MaxUnit == 591

\* the lower-case mappings of U+0080..U+024F, as <<first, last, step,
\* difference>>: the code points first, first + step, ..., last map to
\* themselves plus the difference
LowerRules ==
  {
    <<192, 214, 1, 32>>, <<216, 222, 1, 32>>, <<256, 302, 2, 1>>, <<306, 310, 2, 1>>,
    <<313, 327, 2, 1>>, <<330, 374, 2, 1>>, <<376, 376, 1, -121>>, <<377, 381, 2, 1>>,
    <<385, 385, 1, 210>>, <<386, 388, 2, 1>>, <<390, 390, 1, 206>>, <<391, 391, 1, 1>>,
    <<393, 394, 1, 205>>, <<395, 395, 1, 1>>, <<398, 398, 1, 79>>, <<399, 399, 1, 202>>,
    <<400, 400, 1, 203>>, <<401, 401, 1, 1>>, <<403, 403, 1, 205>>, <<404, 404, 1, 207>>,
    <<406, 406, 1, 211>>, <<407, 407, 1, 209>>, <<408, 408, 1, 1>>, <<412, 412, 1, 211>>,
    <<413, 413, 1, 213>>, <<415, 415, 1, 214>>, <<416, 420, 2, 1>>, <<422, 422, 1, 218>>,
    <<423, 423, 1, 1>>, <<425, 425, 1, 218>>, <<428, 428, 1, 1>>, <<430, 430, 1, 218>>,
    <<431, 431, 1, 1>>, <<433, 434, 1, 217>>, <<435, 437, 2, 1>>, <<439, 439, 1, 219>>,
    <<440, 440, 1, 1>>, <<444, 444, 1, 1>>, <<452, 452, 1, 2>>, <<453, 453, 1, 1>>,
    <<455, 455, 1, 2>>, <<456, 456, 1, 1>>, <<458, 458, 1, 2>>, <<459, 475, 2, 1>>,
    <<478, 494, 2, 1>>, <<497, 497, 1, 2>>, <<498, 500, 2, 1>>, <<502, 502, 1, -97>>,
    <<503, 503, 1, -56>>, <<504, 542, 2, 1>>, <<544, 544, 1, -130>>, <<546, 562, 2, 1>>,
    <<570, 570, 1, 10795>>, <<571, 571, 1, 1>>, <<573, 573, 1, -163>>, <<574, 574, 1, 10792>>,
    <<577, 577, 1, 1>>, <<579, 579, 1, -195>>, <<580, 580, 1, 69>>, <<581, 581, 1, 71>>,
    <<582, 590, 2, 1>> }

\* the lower-case mapping of one code unit: U+0130 maps to two code units
LowerPoint(c) ==
  IF c < 128 THEN (IF c >= 65 /\ c <= 90 THEN <<c + 32>> ELSE <<c>>)
  ELSE IF c = 304 THEN <<105, 775>>
  ELSE LET rules == {r \in LowerRules :
                       c >= r[1] /\ c <= r[2] /\ (c - r[1]) % r[3] = 0}
       IN IF rules = {} THEN <<c>> ELSE <<c + (CHOOSE r \in rules : TRUE)[4]>>

\* the lower-cased code units of s from position i on
RECURSIVE LowerFrom(_, _)
LowerFrom(s, i) ==
  IF i > Len(s) THEN <<>> ELSE LowerPoint(s[i]) \o LowerFrom(s, i + 1)

\* String.prototype.toLowerCase of a string over U+0000..U+024F.  Beyond
\* that range the result depends on the Unicode version of the runtime and
\* on the code points around a capital sigma, and the model leaves it
\* undefined
toLowerCase(s) ==
  CASE \A i \in 1..Len(s) : s[i] <= MaxUnit -> LowerFrom(s, 1)

\* the < operator of JavaScript on two strings: code-unit lexicographic order
RECURSIVE StrLess(_, _)
StrLess(s, u) ==
  IF u = <<>> THEN FALSE
  ELSE IF s = <<>> THEN TRUE
  ELSE IF Head(s) < Head(u) THEN TRUE
  ELSE IF Head(s) > Head(u) THEN FALSE
  ELSE StrLess(Tail(s), Tail(u))

(***************************************************************************)
(* JSON values in memory.                                                  *)
(***************************************************************************)
JUndef == [t |-> "undef"]
JNull == [t |-> "null"]
JBool(b) == [t |-> "bool", b |-> b]
JNum(n) == [t |-> "num", n |-> n]
\* the number Infinity
JInfinity == [t |-> "inf"]
JStr(s) == [t |-> "str", s |-> s]
JArr(a) == [t |-> "arr", a |-> a]
\* an object is the sequence of its <<key, value>> properties in insertion order
JObj(o) == [t |-> "obj", o |-> o]

\* typeof value
TypeOf(v) ==
  CASE v.t = "undef" -> "undefined"
    [] v.t = "bool" -> "boolean"
    [] v.t \in {"num", "inf"} -> "number"
    [] v.t = "str" -> "string"
    [] OTHER -> "object"

\* ToBoolean(value): the truthiness test of !value
Truthy(v) ==
  CASE v.t = "undef" -> FALSE
    [] v.t = "null" -> FALSE
    [] v.t = "bool" -> v.b
    [] v.t = "num" -> v.n # 0
    [] v.t = "str" -> v.s # <<>>
    [] OTHER -> TRUE

\* Array.isArray(value)
IsArray(v) == v.t = "arr"

\* the property read value[key]; undefined when the property is absent
Get(v, key) ==
  IF v.t = "obj" /\ \E i \in 1..Len(v.o) : v.o[i][1] = key
  THEN v.o[CHOOSE i \in 1..Len(v.o) : v.o[i][1] = key][2]
  ELSE JUndef

\* value || "Unknown"
OrUnknown(v) == IF Truthy(v) THEN v ELSE JStr(S_Unknown)

\* SameValueZero as Set.prototype.has applies it to values that JSON.parse
\* built: primitives by value, objects and arrays by reference (every parsed
\* object is a fresh one, so two of them are never the same)
SameValueZero(x, y) == x.t \notin {"arr", "obj"} /\ x = y

\* `${value}` throws a TypeError: ToString of an object calls its toString,
\* and an object that JSON.parse built has a callable one only when it has no
\* property "toString" of its own (Object.prototype.valueOf then returns the
\* object, which is no primitive); ToString of an array joins the strings of
\* its elements
RECURSIVE ToStringThrows(_)
ToStringThrows(v) ==
  CASE v.t = "obj" -> \E i \in 1..Len(v.o) : v.o[i][1] = K_toString
    [] v.t = "arr" -> \E i \in 1..Len(v.a) : ToStringThrows(v.a[i])
    [] OTHER -> FALSE

(***************************************************************************)
(* File contents: sequences of JSON tokens.  k is the kind of the token,   *)
(* s the characters of a string token or of a numeral, n the number of a   *)
(* number token, the spaces after the line break of an "nl" token, or the  *)
(* spaces after a colon.                                                   *)
(***************************************************************************)
Tok(k) == [k |-> k, s |-> <<>>, n |-> 0]
\* a string literal spelled as JSON.stringify spells the string s
TokStr(s) == [k |-> "str", s |-> s, n |-> 0]
\* any other string literal, kept as the bytes between its quotes
TokLit(s) == [k |-> "lit", s |-> s, n |-> 0]
\* a numeral of decimal digits, with a minus sign when n is negative
TokNum(n) == [k |-> "num", s |-> <<>>, n |-> n]
\* any other numeral, kept as its characters
TokNumeral(s) == [k |-> "numeral", s |-> s, n |-> 0]
TokNl(n) == [k |-> "nl", s |-> <<>>, n |-> n]
TokColon(n) == [k |-> ":", s |-> <<>>, n |-> n]
\* spaces, tabs and carriage returns that follow neither a line break nor a
\* colon
TokWs(s) == [k |-> "ws", s |-> s, n |-> 0]
\* bytes that are no sequence of JSON tokens
TokRaw(s) == [k |-> "raw", s |-> s, n |-> 0]

\* the numeral 1e400
S_1e400 == <<49, 101, 52, 48, 48>>

\* program constants of the compact-array test of formatJSON
CompactMaxItems == 5
CompactMaxChars == 50

\* the replacer formatJSON hands to JSON.stringify: both branches of its
\* compact-array test return the value itself
Replacer(key, value) ==
  IF IsArray(value)
  THEN IF Len(value.a) <= CompactMaxItems
          /\ \A i \in 1..Len(value.a) :
               TypeOf(value.a[i]) = "string" /\ Len(value.a[i].s) < CompactMaxChars
       THEN value
       ELSE value
  ELSE value

\* the line break and indentation JSON.stringify puts before an element
Break(gap, ind) == IF gap = 0 THEN <<>> ELSE <<TokNl(ind)>>

\* SerializeJSONProperty of JSON.stringify(value, replacer, gap); rep says
\* whether a replacer was given, and it is applied to every value before the
\* value is serialised.  A number that is not finite is written as null
RECURSIVE Serialize(_, _, _, _, _)
RECURSIVE SerializeList(_, _, _, _, _)
RECURSIVE SerializeProps(_, _, _, _, _)
Serialize(rep, key, value0, gap, ind) ==
  LET value == IF rep THEN Replacer(key, value0) ELSE value0
  IN CASE value.t = "null" -> <<Tok("null")>>
       [] value.t = "bool" -> <<Tok(IF value.b THEN "true" ELSE "false")>>
       [] value.t = "num" -> <<TokNum(value.n)>>
       [] value.t = "inf" -> <<Tok("null")>>
       [] value.t = "str" -> <<TokStr(value.s)>>
       [] value.t = "arr" ->
            IF value.a = <<>> THEN <<Tok("["), Tok("]")>>
            ELSE <<Tok("[")>> \o SerializeList(rep, value.a, 1, gap, ind + gap)
                 \o Break(gap, ind) \o <<Tok("]")>>
       [] value.t = "obj" ->
            IF value.o = <<>> THEN <<Tok("{"), Tok("}")>>
            ELSE <<Tok("{")>> \o SerializeProps(rep, value.o, 1, gap, ind + gap)
                 \o Break(gap, ind) \o <<Tok("}")>>

SerializeList(rep, a, i, gap, ind) ==
  IF i > Len(a) THEN <<>>
  ELSE Break(gap, ind) \o Serialize(rep, <<i - 1>>, a[i], gap, ind)
       \o (IF i < Len(a) THEN <<Tok(",")>> ELSE <<>>)
       \o SerializeList(rep, a, i + 1, gap, ind)

SerializeProps(rep, o, i, gap, ind) ==
  IF i > Len(o) THEN <<>>
  ELSE Break(gap, ind) \o <<TokStr(o[i][1]), TokColon(IF gap = 0 THEN 0 ELSE 1)>>
       \o Serialize(rep, o[i][1], o[i][2], gap, ind)
       \o (IF i < Len(o) THEN <<Tok(",")>> ELSE <<>>)
       \o SerializeProps(rep, o, i + 1, gap, ind)

\* JSON.stringify(value, replacer, gap)
Stringify(rep, value, gap) == Serialize(rep, <<>>, value, gap, 0)

\* the indentation formatJSON asks for
FormatGap == 2

\* formatJSON(data)
formatJSON(data) == Stringify(TRUE, data, FormatGap)

(***************************************************************************)
(* JSON.parse.                                                             *)
(***************************************************************************)
ParseFail == [ok |-> FALSE, v |-> JUndef, i |-> 0]

\* the largest array index, 2^32 - 2, in decimal digits
S_MaxArrayIndex == <<52, 50, 57, 52, 57, 54, 55, 50, 57, 52>>

\* numeric order of two canonical strings of decimal digits
IndexLess(a, b) == Len(a) < Len(b) \/ (Len(a) = Len(b) /\ StrLess(a, b))

\* the property name is an array index: the canonical decimal form of an
\* integer from 0 to 2^32 - 2
IsArrayIndex(key) ==
  /\ Len(key) >= 1
  /\ \A j \in 1..Len(key) : key[j] >= 48 /\ key[j] <= 57
  /\ (Len(key) = 1 \/ key[1] # 48)
  /\ ~IndexLess(S_MaxArrayIndex, key)

\* object[key] = value as JSON.parse does it: a repeated key keeps its
\* position and takes the last value; a new array-index key goes among the
\* array-index keys, which come first in ascending numeric order; any other
\* new key goes last
SetProp(o, key, value) ==
  IF \E j \in 1..Len(o) : o[j][1] = key
  THEN [j \in 1..Len(o) |-> IF o[j][1] = key THEN <<key, value>> ELSE o[j]]
  ELSE IF IsArrayIndex(key)
  THEN LET n == Cardinality({j \in 1..Len(o) :
                               /\ IsArrayIndex(o[j][1])
                               /\ IndexLess(o[j][1], key)})
       IN SubSeq(o, 1, n) \o << <<key, value>> >> \o SubSeq(o, n + 1, Len(o))
  ELSE Append(o, <<key, value>>)

\* the value of a hexadecimal digit
HexValue(h) ==
  CASE h >= 48 /\ h <= 57 -> h - 48
    [] h >= 65 /\ h <= 70 -> h - 55
    [] h >= 97 /\ h <= 102 -> h - 87

IsHex(h) == (h >= 48 /\ h <= 57) \/ (h >= 65 /\ h <= 70) \/ (h >= 97 /\ h <= 102)

ScanFail == [ok |-> FALSE, s |-> <<>>, i |-> 0]

\* the characters of the string literal in the bytes b whose opening quote is
\* before position i, as JSON.parse reads them; i of the result is the
\* position after the closing quote
RECURSIVE ScanString(_, _, _)
ScanString(b, i, s) ==
  IF i > Len(b) THEN ScanFail
  ELSE CASE b[i] = 34 -> [ok |-> TRUE, s |-> s, i |-> i + 1]
         [] b[i] = 92 ->
              IF i + 1 > Len(b) THEN ScanFail
              ELSE CASE b[i + 1] \in {34, 92, 47} -> ScanString(b, i + 2, Append(s, b[i + 1]))
                     [] b[i + 1] = 98 -> ScanString(b, i + 2, Append(s, 8))
                     [] b[i + 1] = 102 -> ScanString(b, i + 2, Append(s, 12))
                     [] b[i + 1] = 110 -> ScanString(b, i + 2, Append(s, 10))
                     [] b[i + 1] = 114 -> ScanString(b, i + 2, Append(s, 13))
                     [] b[i + 1] = 116 -> ScanString(b, i + 2, Append(s, 9))
                     [] b[i + 1] = 117 ->
                          IF i + 5 <= Len(b) /\ \A m \in (i + 2)..(i + 5) : IsHex(b[m])
                          THEN ScanString(b, i + 6,
                                          Append(s, HexValue(b[i + 2]) * 4096
                                                    + HexValue(b[i + 3]) * 256
                                                    + HexValue(b[i + 4]) * 16
                                                    + HexValue(b[i + 5])))
                          ELSE ScanFail
                     [] OTHER -> ScanFail
         [] b[i] < 32 -> ScanFail
         [] b[i] >= 32 /\ b[i] < 128 /\ b[i] \notin {34, 92} ->
              ScanString(b, i + 1, Append(s, b[i]))
         [] /\ b[i] >= 194 /\ b[i] <= 223
            /\ i + 1 <= Len(b) /\ b[i + 1] >= 128 /\ b[i + 1] <= 191 ->
              ScanString(b, i + 2, Append(s, (b[i] - 192) * 64 + (b[i + 1] - 128)))

\* the string of a string token
StrValue(tok) ==
  IF tok.k = "lit" THEN ScanString(tok.s \o <<34>>, 1, <<>>).s ELSE tok.s

\* the number of a string of decimal digits
RECURSIVE DecimalValue(_)
DecimalValue(d) ==
  IF d = <<>> THEN 0
  ELSE 10 * DecimalValue(SubSeq(d, 1, Len(d) - 1)) + (d[Len(d)] - 48)

\* the smallest decimal exponent at which a one-digit mantissa from 1 to 9
\* is beyond the largest double, 1.7976931348623157e308
OverflowExponent == 309

\* the number of a numeral of the form <digit from 1 to 9>e<digits> whose
\* exponent is 309 or more: Infinity.  The doubles of other numerals that
\* are no plain integers are not modelled
NumeralValue(s) ==
  CASE /\ Len(s) >= 3
       /\ s[1] >= 49 /\ s[1] <= 57
       /\ s[2] = 101
       /\ \A j \in 3..Len(s) : s[j] >= 48 /\ s[j] <= 57
       /\ Len(s) <= 9
       /\ DecimalValue(SubSeq(s, 3, Len(s))) >= OverflowExponent -> JInfinity

RECURSIVE ParseValue(_, _)
RECURSIVE ParseElems(_, _, _)
RECURSIVE ParseMembers(_, _, _)
ParseValue(toks, i) ==
  IF i > Len(toks) THEN ParseFail
  ELSE CASE toks[i].k = "null" -> [ok |-> TRUE, v |-> JNull, i |-> i + 1]
         [] toks[i].k = "true" -> [ok |-> TRUE, v |-> JBool(TRUE), i |-> i + 1]
         [] toks[i].k = "false" -> [ok |-> TRUE, v |-> JBool(FALSE), i |-> i + 1]
         [] toks[i].k = "num" -> [ok |-> TRUE, v |-> JNum(toks[i].n), i |-> i + 1]
         [] toks[i].k = "numeral" ->
              [ok |-> TRUE, v |-> NumeralValue(toks[i].s), i |-> i + 1]
         [] toks[i].k \in {"str", "lit"} ->
              [ok |-> TRUE, v |-> JStr(StrValue(toks[i])), i |-> i + 1]
         [] toks[i].k = "[" ->
              IF i + 1 <= Len(toks) /\ toks[i + 1].k = "]"
              THEN [ok |-> TRUE, v |-> JArr(<<>>), i |-> i + 2]
              ELSE ParseElems(toks, i + 1, <<>>)
         [] toks[i].k = "{" ->
              IF i + 1 <= Len(toks) /\ toks[i + 1].k = "}"
              THEN [ok |-> TRUE, v |-> JObj(<<>>), i |-> i + 2]
              ELSE ParseMembers(toks, i + 1, <<>>)
         [] OTHER -> ParseFail

\* the elements of an array after "[" or ","
ParseElems(toks, i, acc) ==
  LET r == ParseValue(toks, i)
  IN IF ~r.ok \/ r.i > Len(toks) THEN ParseFail
     ELSE IF toks[r.i].k = "]"
          THEN [ok |-> TRUE, v |-> JArr(Append(acc, r.v)), i |-> r.i + 1]
     ELSE IF toks[r.i].k = ","
          THEN ParseElems(toks, r.i + 1, Append(acc, r.v))
     ELSE ParseFail

\* the members of an object after "{" or ","
ParseMembers(toks, i, acc) ==
  IF i + 1 > Len(toks) \/ toks[i].k \notin {"str", "lit"} \/ toks[i + 1].k # ":"
  THEN ParseFail
  ELSE LET r == ParseValue(toks, i + 2)
       IN IF ~r.ok \/ r.i > Len(toks) THEN ParseFail
          ELSE IF toks[r.i].k = "}"
               THEN [ok |-> TRUE, v |-> JObj(SetProp(acc, StrValue(toks[i]), r.v)), i |-> r.i + 1]
          ELSE IF toks[r.i].k = ","
               THEN ParseMembers(toks, r.i + 1, SetProp(acc, StrValue(toks[i]), r.v))
          ELSE ParseFail

\* white space between tokens is skipped
IsSpace(tok) == tok.k \in {"nl", "ws"}

\* JSON.parse(text): ok is FALSE where JSON.parse throws a SyntaxError
JSONParse(text) ==
  LET toks == SelectSeq(text, LAMBDA tok : ~IsSpace(tok))
      r == ParseValue(toks, 1)
  IN IF r.ok /\ r.i = Len(toks) + 1 THEN r ELSE ParseFail

(***************************************************************************)
(* The bytes of a file: the UTF-8 text of its tokens, and the tokens of a  *)
(* sequence of bytes.                                                      *)
(***************************************************************************)
\* n spaces
Spaces(n) == [i \in 1..n |-> 32]

\* the decimal digits of a natural number
RECURSIVE Digits(_)
Digits(n) == IF n < 10 THEN <<48 + n>> ELSE Digits(n \div 10) \o <<48 + (n % 10)>>

\* a hexadecimal digit in lower case
HexDigit(d) == IF d < 10 THEN 48 + d ELSE 87 + d

\* one code unit of a string as JSON.stringify quotes it, in UTF-8; the
\* strings of the model stay below U+0800
QuoteUnit(c) ==
  CASE c = 34 -> <<92, 34>>
    [] c = 92 -> <<92, 92>>
    [] c = 8 -> <<92, 98>>
    [] c = 9 -> <<92, 116>>
    [] c = 10 -> <<92, 110>>
    [] c = 12 -> <<92, 102>>
    [] c = 13 -> <<92, 114>>
    [] c < 32 /\ c \notin {8, 9, 10, 12, 13} ->
         <<92, 117, 48, 48, HexDigit(c \div 16), HexDigit(c % 16)>>
    [] c >= 32 /\ c < 128 /\ c \notin {34, 92} -> <<c>>
    [] c >= 128 /\ c < 2048 -> <<192 + (c \div 64), 128 + (c % 64)>>

RECURSIVE QuoteFrom(_, _)
QuoteFrom(s, i) == IF i > Len(s) THEN <<>> ELSE QuoteUnit(s[i]) \o QuoteFrom(s, i + 1)

\* the bytes of one token
TokBytes(tok) ==
  CASE tok.k = "str" -> <<34>> \o QuoteFrom(tok.s, 1) \o <<34>>
    [] tok.k = "num" -> IF tok.n < 0 THEN <<45>> \o Digits(0 - tok.n) ELSE Digits(tok.n)
    [] tok.k = "lit" -> <<34>> \o tok.s \o <<34>>
    [] tok.k \in {"numeral", "ws", "raw"} -> tok.s
    [] tok.k = "nl" -> <<10>> \o Spaces(tok.n)
    [] tok.k = ":" -> <<58>> \o Spaces(tok.n)
    [] tok.k = "[" -> <<91>>
    [] tok.k = "]" -> <<93>>
    [] tok.k = "{" -> <<123>>
    [] tok.k = "}" -> <<125>>
    [] tok.k = "," -> <<44>>
    [] tok.k = "null" -> <<110, 117, 108, 108>>
    [] tok.k = "true" -> <<116, 114, 117, 101>>
    [] tok.k = "false" -> <<102, 97, 108, 115, 101>>

\* the bytes of the tokens lo to hi of a text
RECURSIVE BytesOf(_, _, _)
BytesOf(text, lo, hi) ==
  IF lo > hi THEN <<>>
  ELSE IF lo = hi THEN TokBytes(text[lo])
  ELSE BytesOf(text, lo, (lo + hi) \div 2) \o BytesOf(text, ((lo + hi) \div 2) + 1, hi)

\* the bytes of a text
Bytes(text) == BytesOf(text, 1, Len(text))

\* the first position from i on that holds no byte of the set
RunEnd(b, i, set) ==
  CHOOSE j \in i..(Len(b) + 1) :
    /\ \A m \in i..(j - 1) : b[m] \in set
    /\ (j = Len(b) + 1 \/ b[j] \notin set)

DigitBytes == 48..57

\* the bytes b have the bytes w at position i
HasAt(b, i, w) == i + Len(w) - 1 <= Len(b) /\ SubSeq(b, i, i + Len(w) - 1) = w

\* the position after the numeral that starts at position i, or 0 when the
\* bytes there are no numeral: an optional minus sign, 0 or digits that do
\* not start with 0, an optional fraction and an optional exponent
NumeralEnd(b, i) ==
  LET int == IF b[i] = 45 THEN i + 1 ELSE i
      intEnd == IF int > Len(b) \/ b[int] \notin DigitBytes THEN 0
                ELSE IF b[int] = 48 THEN int + 1
                ELSE RunEnd(b, int, DigitBytes)
      fracEnd == IF intEnd = 0 THEN 0
                 ELSE IF intEnd <= Len(b) /\ b[intEnd] = 46
                 THEN (IF RunEnd(b, intEnd + 1, DigitBytes) > intEnd + 1
                       THEN RunEnd(b, intEnd + 1, DigitBytes) ELSE 0)
                 ELSE intEnd
      exp == IF fracEnd # 0 /\ fracEnd + 1 <= Len(b) /\ b[fracEnd + 1] \in {43, 45}
             THEN fracEnd + 2 ELSE fracEnd + 1
  IN IF fracEnd = 0 THEN 0
     ELSE IF fracEnd <= Len(b) /\ b[fracEnd] \in {69, 101}
     THEN (IF RunEnd(b, exp, DigitBytes) > exp THEN RunEnd(b, exp, DigitBytes) ELSE 0)
     ELSE fracEnd

\* the token of a numeral: a number token for decimal digits, with or
\* without a minus sign, that TokNum writes the same way
NumeralToken(s) ==
  LET d == IF s[1] = 45 THEN SubSeq(s, 2, Len(s)) ELSE s
  IN IF /\ \A j \in 1..Len(d) : d[j] \in DigitBytes
        /\ Len(d) <= 9
        /\ ~(s[1] = 45 /\ d = <<48>>)
     THEN TokNum(IF s[1] = 45 THEN 0 - DecimalValue(d) ELSE DecimalValue(d))
     ELSE TokNumeral(s)

\* a scan of bytes: the tokens found before position i; ok is FALSE once
\* bytes were met that start no token
LexStart == [ok |-> TRUE, i |-> 1, toks |-> <<>>]

\* the scan after one more token; a scan that has failed or is at the end of
\* the bytes stays as it is
LexStep(b, st) ==
  LET i == st.i
      put(tok, j) == [ok |-> TRUE, i |-> j, toks |-> Append(st.toks, tok)]
      fail == [st EXCEPT !.ok = FALSE]
  IN IF ~st.ok \/ i > Len(b) THEN st
     ELSE CASE b[i] = 10 -> put(TokNl(RunEnd(b, i + 1, {32}) - i - 1), RunEnd(b, i + 1, {32}))
            [] b[i] = 58 -> put(TokColon(RunEnd(b, i + 1, {32}) - i - 1), RunEnd(b, i + 1, {32}))
            [] b[i] \in {9, 13, 32} ->
                 put(TokWs(SubSeq(b, i, RunEnd(b, i, {9, 13, 32}) - 1)),
                     RunEnd(b, i, {9, 13, 32}))
            [] b[i] = 91 -> put(Tok("["), i + 1)
            [] b[i] = 93 -> put(Tok("]"), i + 1)
            [] b[i] = 123 -> put(Tok("{"), i + 1)
            [] b[i] = 125 -> put(Tok("}"), i + 1)
            [] b[i] = 44 -> put(Tok(","), i + 1)
            [] b[i] = 34 ->
                 LET r == ScanString(b, i + 1, <<>>)
                     lit == SubSeq(b, i + 1, r.i - 2)
                 IN IF ~r.ok THEN fail
                    ELSE IF (\A j \in 1..Len(r.s) : r.s[j] < 2048) /\ QuoteFrom(r.s, 1) = lit
                    THEN put(TokStr(r.s), r.i)
                    ELSE put(TokLit(lit), r.i)
            [] b[i] = 45 \/ b[i] \in DigitBytes ->
                 LET j == NumeralEnd(b, i)
                 IN IF j = 0 THEN fail ELSE put(NumeralToken(SubSeq(b, i, j - 1)), j)
            [] b[i] = 110 ->
                 IF HasAt(b, i, <<110, 117, 108, 108>>) THEN put(Tok("null"), i + 4) ELSE fail
            [] b[i] = 116 ->
                 IF HasAt(b, i, <<116, 114, 117, 101>>) THEN put(Tok("true"), i + 4) ELSE fail
            [] b[i] = 102 ->
                 IF HasAt(b, i, <<102, 97, 108, 115, 101>>)
                 THEN put(Tok("false"), i + 5) ELSE fail
            [] OTHER -> fail

\* the scan after 2^k more tokens, or fewer where it fails before
RECURSIVE LexSteps(_, _, _)
LexSteps(b, st, k) ==
  IF k = 0 THEN LexStep(b, st)
  ELSE LET half == LexSteps(b, st, k - 1)
       IN IF half.ok THEN LexSteps(b, half, k - 1) ELSE half

\* the smallest k with 2^k >= n
RECURSIVE Log2(_)
Log2(n) == IF n <= 1 THEN 0 ELSE 1 + Log2((n + 1) \div 2)

\* the scan of all the bytes: every token has a byte at least
Lex(b) == LexSteps(b, LexStart, Log2(Len(b)))

\* the text of a sequence of bytes: its tokens, or the bytes themselves where
\* they are no sequence of JSON tokens
Text(b) == IF Lex(b).ok THEN Lex(b).toks ELSE <<TokRaw(b)>>

(***************************************************************************)
(* The dedupe-and-sort step.                                               *)
(***************************************************************************)
\* seenIds.has(id)
SetHas(seen, id) == \E x \in seen : SameValueZero(x, id)

\* DupDescriptor that counts originalIndex from 1
DupDescriptorOneBased(item, index) ==
  [id |-> Get(item, K_id), name |-> OrUnknown(Get(item, K_name)),
   originalIndex |-> index + 1]

\* the descriptor pushed on duplicates; index is the 0-based forEach index
DupDescriptor(item, index) ==
  [id |-> Get(item, K_id), name |-> OrUnknown(Get(item, K_name)), originalIndex |-> index]

\* the warning `Duplicate ID found: "${item.id}" (${item.name || "Unknown"})`
\* throws
DuplicateLogThrows(item) ==
  ToStringThrows(Get(item, K_id)) \/ ToStringThrows(OrUnknown(Get(item, K_name)))

\* the state of the forEach loop before its first iteration; threw says that
\* the callback has thrown a TypeError, which ends the loop
LoopStart ==
  [seen |-> {}, duplicates |-> <<>>, unique |-> <<>>, schemaViolations |-> 0,
   threw |-> FALSE]

\* SimpleStep without seenIds.add(item.id)
SimpleStepNoAdd(acc, item, index) ==
  IF ~Truthy(item) \/ TypeOf(item) # "object" THEN acc
  ELSE IF ~Truthy(Get(item, K_id)) THEN acc
  ELSE IF SetHas(acc.seen, Get(item, K_id))
       THEN [acc EXCEPT !.duplicates = Append(@, DupDescriptor(item, index)),
                        !.threw = DuplicateLogThrows(item)]
       ELSE [acc EXCEPT !.unique = Append(@, item)]

\* one iteration of the forEach callback of dedupeAndSortMeta; its two
\* "Skipping" warnings hand the item and the name to console.warn as
\* arguments, which throws on no value
SimpleStep(acc, item, index) ==
  IF ~Truthy(item) \/ TypeOf(item) # "object" THEN acc
  ELSE IF ~Truthy(Get(item, K_id)) THEN acc
  ELSE IF SetHas(acc.seen, Get(item, K_id))
       THEN [acc EXCEPT !.duplicates = Append(@, DupDescriptor(item, index)),
                        !.threw = DuplicateLogThrows(item)]
       ELSE [acc EXCEPT !.seen = @ \cup {Get(item, K_id)}, !.unique = Append(@, item)]

\* the fields MetaProcessor.validateSchema requires
RequiredFields == <<K_id, K_name, K_version, K_description, K_links, K_logo, K_tags>>

\* MetaProcessor.validateSchema(item, index): FALSE when a required field is
\* missing; the two structure warnings that follow do not change the result
validateSchema(item) ==
  LET missing == SelectSeq(RequiredFields, LAMBDA field : ~Truthy(Get(item, field)))
  IN IF Len(missing) > 0 THEN FALSE ELSE TRUE

\* MetaProcessor.validateSchema(item, index) throws: no required field is
\* missing, links is no object or has no truthy github, or tags is no array,
\* and the warning `Item "${item.id}" has invalid ...` throws
validateSchemaThrows(item) ==
  /\ validateSchema(item)
  /\ \/ TypeOf(Get(item, K_links)) # "object"
     \/ ~Truthy(Get(Get(item, K_links), K_github))
     \/ ~IsArray(Get(item, K_tags))
  /\ ToStringThrows(Get(item, K_id))

\* the warning `Skipping item without ID at index ${index}: ${item.name ||
\* "Unknown"}` throws
SkipLogThrows(item) == ToStringThrows(OrUnknown(Get(item, K_name)))

\* MetaStep that fills in the name "Unknown" of a kept record that has none
MetaStepFillName(acc, item, index, validate) ==
  IF ~Truthy(item) \/ TypeOf(item) # "object"
  THEN [acc EXCEPT !.schemaViolations = @ + 1]
  ELSE IF ~Truthy(Get(item, K_id))
  THEN (IF SkipLogThrows(item) THEN [acc EXCEPT !.threw = TRUE]
        ELSE [acc EXCEPT !.schemaViolations = @ + 1])
  ELSE IF validate /\ validateSchemaThrows(item)
  THEN [acc EXCEPT !.threw = TRUE]
  ELSE LET acc1 == IF validate /\ ~validateSchema(item)
                   THEN [acc EXCEPT !.schemaViolations = @ + 1]
                   ELSE acc
           kept == IF Truthy(Get(item, K_name)) THEN item
                   ELSE JObj(SetProp(item.o, K_name, JStr(S_Unknown)))
       IN IF SetHas(acc1.seen, Get(item, K_id))
          THEN [acc1 EXCEPT !.duplicates = Append(@, DupDescriptor(item, index)),
                            !.threw = DuplicateLogThrows(item)]
          ELSE [acc1 EXCEPT !.seen = @ \cup {Get(item, K_id)}, !.unique = Append(@, kept)]

\* one iteration of the forEach callback of MetaProcessor.dedupeAndSort
MetaStep(acc, item, index, validate) ==
  IF ~Truthy(item) \/ TypeOf(item) # "object"
  THEN [acc EXCEPT !.schemaViolations = @ + 1]
  ELSE IF ~Truthy(Get(item, K_id))
  THEN (IF SkipLogThrows(item) THEN [acc EXCEPT !.threw = TRUE]
        ELSE [acc EXCEPT !.schemaViolations = @ + 1])
  ELSE IF validate /\ validateSchemaThrows(item)
  THEN [acc EXCEPT !.threw = TRUE]
  ELSE LET acc1 == IF validate /\ ~validateSchema(item)
                   THEN [acc EXCEPT !.schemaViolations = @ + 1]
                   ELSE acc
       IN IF SetHas(acc1.seen, Get(item, K_id))
          THEN [acc1 EXCEPT !.duplicates = Append(@, DupDescriptor(item, index)),
                            !.threw = DuplicateLogThrows(item)]
          ELSE [acc1 EXCEPT !.seen = @ \cup {Get(item, K_id)}, !.unique = Append(@, item)]

\* data.forEach((item, index) => ...) of either variant, from element i on;
\* a callback that throws ends it
RECURSIVE ForEach(_, _, _, _, _)
ForEach(variant, validate, data, i, acc) ==
  IF i > Len(data) \/ acc.threw THEN acc
  ELSE ForEach(variant, validate, data, i + 1,
               IF variant = "simple" THEN SimpleStep(acc, data[i], i - 1)
               ELSE MetaStep(acc, data[i], i - 1, validate))

\* the sort key a.id.toLowerCase(); evaluating it throws a TypeError when the
\* id is not a string
HasSortKey(item) == TypeOf(Get(item, K_id)) = "string"
SortKey(item) == toLowerCase(Get(item, K_id).s)

\* Compare on the raw ids, without toLowerCase
CompareRaw(a, b) ==
  LET idA == Get(a, K_id).s
      idB == Get(b, K_id).s
  IN IF StrLess(idA, idB) THEN 0 - 1 ELSE IF StrLess(idB, idA) THEN 1 ELSE 0

\* the comparator handed to unique.sort
Compare(a, b) ==
  LET idA == SortKey(a)
      idB == SortKey(b)
  IN IF StrLess(idA, idB) THEN 0 - 1 ELSE IF StrLess(idB, idA) THEN 1 ELSE 0

\* Array.prototype.sort is stable: an element goes behind every element that
\* does not compare greater than it
RECURSIVE InsertSorted(_, _)
InsertSorted(sorted, x) ==
  IF sorted = <<>> THEN <<x>>
  ELSE IF Compare(sorted[Len(sorted)], x) <= 0 THEN Append(sorted, x)
  ELSE Append(InsertSorted(SubSeq(sorted, 1, Len(sorted) - 1), x), sorted[Len(sorted)])

RECURSIVE SortFrom(_, _, _)
SortFrom(unique, i, sorted) ==
  IF i > Len(unique) THEN sorted
  ELSE SortFrom(unique, i + 1, InsertSorted(sorted, unique[i]))

\* unique.sort(comparator)
Sort(unique) == SortFrom(unique, 1, <<>>)

\* unique.sort calls the comparator on every element once there are two, and the
\* comparator throws on an id that has no toLowerCase
SortThrows(unique) == Len(unique) >= 2 /\ \E i \in 1..Len(unique) : ~HasSortKey(unique[i])

\* what the dedupe-and-sort step yields: threw says that a warning of the
\* loop or the sort ended it in a TypeError, in which case nothing is returned
DedupeResult(variant, validate, data) ==
  LET acc == ForEach(variant, validate, data, 1, LoopStart)
  IN IF acc.threw \/ SortThrows(acc.unique)
     THEN [threw |-> TRUE, original |-> Len(data), duplicatesRemoved |-> 0, final |-> 0,
           duplicates |-> <<>>, unique |-> <<>>, schemaViolations |-> 0]
     ELSE [threw |-> FALSE, original |-> Len(data),
           duplicatesRemoved |-> Len(acc.duplicates), final |-> Len(acc.unique),
           duplicates |-> acc.duplicates, unique |-> Sort(acc.unique),
           schemaViolations |-> IF variant = "simple" THEN 0 ELSE acc.schemaViolations]

\* lines 41-80 of dedupeAndSortMeta
dedupeAndSortMeta(data) == DedupeResult("simple", FALSE, data)

\* MetaProcessor.dedupeAndSort(data)
dedupeAndSort(validate, data) == DedupeResult("meta", validate, data)

(***************************************************************************)
(* Inputs.                                                                 *)
(***************************************************************************)
\* a record with the given id and name; an undefined one is left out
Rec(id, name) ==
  JObj((IF id = JUndef THEN <<>> ELSE << <<K_id, id>> >>)
       \o (IF name = JUndef THEN <<>> ELSE << <<K_name, name>> >>))

\* a record that has every required field
FullRec(id, name, tags) ==
  JObj(<< <<K_id, id>>, <<K_name, name>>, <<K_version, JStr(S_a)>>,
          <<K_description, JStr(S_b)>>,
          <<K_links, JObj(<< <<K_github, JStr(S_a)>> >>)>>,
          <<K_logo, JStr(S_a)>>, <<K_tags, tags>> >>)

\* a record that has every required field, with no links.github and with
\* tags that is not an array
OddRec(id, name) ==
  JObj(<< <<K_id, id>>, <<K_name, name>>, <<K_version, JStr(S_a)>>,
          <<K_description, JStr(S_b)>>, <<K_links, JObj(<<>>)>>,
          <<K_logo, JStr(S_a)>>, <<K_tags, JStr(S_a)>> >>)

\* array elements handed directly to the dedupe-and-sort step
PureItems ==
  { JNull, JNum(7), JArr(<<>>),
    Rec(JUndef, JStr(S_N1)), Rec(JStr(S_empty), JStr(S_N1)), Rec(JNum(5), JUndef),
    Rec(JStr(S_a), JStr(S_N1)), Rec(JStr(S_a), JStr(S_N2)),
    Rec(JStr(S_A), JStr(S_N1)), Rec(JStr(S_A), JUndef),
    Rec(JStr(S_B), JStr(S_N2)), Rec(JStr(S_us), JStr(S_N1)),
    Rec(JStr(S_ab), JStr(S_N1)), Rec(JStr(S_Ab), JStr(S_N2)),
    FullRec(JStr(S_b), JStr(S_N1), JArr(<<JStr(S_a)>>)),
    OddRec(JStr(S_B), JStr(S_N1)),
    Rec(JStr(S_Eacute), JStr(S_N1)), Rec(JStr(S_times), JStr(S_N2)) }

\* the sequences over S of length at most n
SeqUpTo(S, n) == UNION {[1..k -> S] : k \in 0..n}

\* a string of n characters
StrOfLen(n) == [i \in 1..n |-> 120]

\* array elements handed directly to formatJSON
FmtElems ==
  { JStr(S_a), JStr(StrOfLen(CompactMaxChars - 1)), JStr(StrOfLen(CompactMaxChars)), JNum(7) }

\* the values handed directly to formatJSON: an array, alone or as the tags
\* of the only record of the collection
FmtInputs ==
  LET arrays == {JArr(a) : a \in SeqUpTo(FmtElems, MaxFmtLen)}
  IN arrays \cup {JArr(<<FullRec(JStr(S_a), JStr(S_N1), arr)>>) : arr \in arrays}

(***************************************************************************)
(* Files and invocations.                                                  *)
(***************************************************************************)
InName == "meta.json"
OutName == "out.json"
CopyName == "meta-copy.json"

\* the path of a file; ts > 0 names the backup `${name}.backup.${ts}`
Path(name) == [name |-> name, ts |-> 0]
BackupPath(name, ts) == [name |-> name, ts |-> ts]

\* a record written in the file as {"id": ..., "7": null}
IndexKeyRec(id) == JObj(<< <<K_id, id>>, <<K_7, JNull>> >>)

\* the object {"toString": 0}, which no template literal can interpolate
NoString == JObj(<< <<K_toString, JNum(0)>> >>)

\* array elements of the input file, their properties in the order of the text
FileItems ==
  { JNull, Rec(JUndef, JStr(S_N1)), Rec(JNum(5), JUndef),
    Rec(JStr(S_a), JStr(S_N1)), Rec(JStr(S_a), JStr(S_N2)), Rec(JStr(S_A), JUndef),
    Rec(JStr(S_us), JStr(S_N1)),
    FullRec(JStr(S_B), JStr(S_N2), JArr(<<JStr(S_a)>>)),
    IndexKeyRec(JStr(S_b)),
    Rec(NoString, JUndef), Rec(JUndef, NoString) }

\* the element text {"id":1e400}, whose id JSON.parse reads as Infinity
HugeIdText ==
  <<Tok("{"), TokStr(K_id), TokColon(0), TokNumeral(S_1e400), Tok("}")>>

\* the element text {"id":"\u0041"}, whose id JSON.parse reads as "A"
EscapedIdText ==
  <<Tok("{"), TokStr(K_id), TokColon(0), TokLit(<<92, 117, 48, 48, 52, 49>>), Tok("}")>>

\* the texts of the array elements of the input file
ItemTexts == {Stringify(FALSE, item, 0) : item \in FileItems} \cup {HugeIdText, EscapedIdText}

\* the element texts from position i on, with commas between them
RECURSIVE JoinTexts(_, _)
JoinTexts(texts, i) ==
  IF i > Len(texts) THEN <<>>
  ELSE texts[i] \o (IF i < Len(texts) THEN <<Tok(",")>> ELSE <<>>) \o JoinTexts(texts, i + 1)

\* the text of the array of the elements
ArrayOfTexts(texts) == <<Tok("[")>> \o JoinTexts(texts, 1) \o <<Tok("]")>>

\* texts that JSON.parse rejects
BadTexts == { <<Tok("["), Tok("{")>>, <<TokStr(S_a), Tok(",")>> }

\* texts of JSON values that are no arrays
NonArrayTexts ==
  { Stringify(FALSE, JObj(<< <<S_a, JNum(1)>> >>), 0), Stringify(FALSE, JNull, 0) }

\* what the input file may hold before the first run
FileContents ==
  {ArrayOfTexts(a) : a \in SeqUpTo(ItemTexts, MaxLen)} \cup BadTexts \cup NonArrayTexts

\* the options object handed to new MetaProcessor(options); "unset" is a
\* key that is not given
RawOptions ==
  [inputFile : {InName}, outputFile : {"unset", "", OutName},
   createBackup : {"unset", "true"}, validateSchema : {"unset", "false"},
   exitOnError : {"unset", "false"}]

\* MetaProcessor's constructor: this.options
Constructor(raw) ==
  [inputFile |-> IF raw.inputFile = "unset" THEN InName ELSE raw.inputFile,
   outputFile |-> IF raw.outputFile = "unset" THEN "null" ELSE raw.outputFile,
   createBackup |-> raw.createBackup = "true",
   validateSchema |-> raw.validateSchema # "false",
   exitOnError |-> raw.exitOnError # "false"]

\* the arguments of dedupeAndSortMeta(filePath, options) in the same shape
SimpleOptions(filePath, createBackup) ==
  [inputFile |-> filePath, outputFile |-> "null", createBackup |-> createBackup,
   validateSchema |-> FALSE, exitOnError |-> TRUE]

\* an invocation before its first step.  mode "cli" is the script run as the
\* main module, "lib" a caller that awaits process(); help is the --help flag
NewInvocation(variant, mode, help, options) ==
  [variant |-> variant, mode |-> mode, help |-> help, options |-> options,
   pc |-> "init", fileContent |-> <<>>, data |-> <<>>,
   results |-> dedupeAndSortMeta(<<>>), error |-> "none",
   outcome |-> "pending", exitStatus |-> "none",
   steps |-> <<>>, writes |-> <<>>, startFiles |-> <<>>,
   buffer |-> <<>>, backupPath |-> Path(InName), mixed |-> FALSE,
   prev |-> [ran |-> FALSE, written |-> <<>>, results |-> dedupeAndSortMeta(<<>>)]]

\* the invocations the pipeline specification starts with
Invocations ==
  {NewInvocation("simple", "cli", FALSE, SimpleOptions(InName, b)) : b \in BOOLEAN}
    \cup {NewInvocation("simple", "cli", TRUE, SimpleOptions(InName, FALSE))}
    \cup {NewInvocation("meta", IF raw.exitOnError = "false" THEN "lib" ELSE "cli",
                        FALSE, Constructor(raw)) : raw \in RawOptions}
    \cup {NewInvocation("meta", "cli", TRUE,
                        Constructor([inputFile |-> "unset", outputFile |-> "unset",
                                     createBackup |-> "unset", validateSchema |-> "unset",
                                     exitOnError |-> "unset"]))}

(***************************************************************************)
(* State.                                                                  *)
(***************************************************************************)
VARIABLES
  files,  \* the file system: path -> text, for the paths that exist
  now,    \* the last value Date.now() returned
  inv,    \* the invocations: process -> its position and local variables
  runs,   \* invocations started so far
  fn,     \* the pure function applied to arg, "none" before it is applied
  arg,    \* the input of the pure function
  ret     \* what it returned

vars == <<files, now, inv, runs, fn, arg, ret>>

pipeVars == <<files, now, inv, runs>>
pureVars == <<fn, arg, ret>>

\* fs.writeFileSync(path, text)
WriteFile(fs, path, text) ==
  [q \in DOMAIN fs \cup {path} |-> IF q = path THEN text ELSE fs[q]]

\* the empty file system
NoFiles == [q \in {} |-> <<>>]

PureIdle == fn = "none" /\ arg = <<>> /\ ret = <<>>
PipeIdle == files = NoFiles /\ now = 0 /\ inv = <<>> /\ runs = 0

(***************************************************************************)
(* The pipeline: one action per step of dedupeAndSortMeta and of           *)
(* MetaProcessor.process.                                                  *)
(***************************************************************************)
Init ==
  /\ \/ files = NoFiles
     \/ \E text \in FileContents : files = WriteFile(NoFiles, Path(InName), text)
  /\ now = 1
  /\ \E i \in Invocations : inv = <<[i EXCEPT !.startFiles = files]>>
  /\ runs = 1
  /\ PureIdle

Step(p, name) == Append(inv[p].steps, name)

\* OutputPath that ignores outputFile
OutputPathInPlace(options) == Path(options.inputFile)

\* the path the output goes to: outputFile || inputFile, where null and the
\* empty string are falsy
OutputPath(options) ==
  Path(IF options.outputFile \in {"null", ""} THEN options.inputFile
       ELSE options.outputFile)

\* formatJSON(unique) + "\n"
NewContent(unique) == Append(formatJSON(JArr(unique)), TokNl(0))

\* --help: usage is printed and process.exit(0) ends the process
Help(p) ==
  /\ inv[p].pc = "init" /\ inv[p].help
  /\ inv' = [inv EXCEPT ![p].pc = "done", ![p].outcome = "help", ![p].exitStatus = "0"]
  /\ UNCHANGED <<files, now, runs, pureVars>>

\* ReadInput that writes the backup as soon as the file is read
ReadInputBackupFirst(p) ==
  /\ inv[p].pc = "init" /\ ~inv[p].help
  /\ LET path == Path(inv[p].options.inputFile)
         backup == BackupPath(inv[p].options.inputFile, now)
     IN IF path \notin DOMAIN files
        THEN inv' = [inv EXCEPT ![p].pc = "catch", ![p].error = "FileNotFound"]
             /\ UNCHANGED files
        ELSE IF inv[p].options.createBackup
        THEN /\ files' = WriteFile(files, backup, files[path])
             /\ inv' = [inv EXCEPT ![p].pc = "parse", ![p].fileContent = files[path],
                                   ![p].steps = inv[p].steps \o <<"read", "backup">>,
                                   ![p].writes = Append(@, [kind |-> "backup", path |-> backup,
                                                            text |-> files[path]])]
        ELSE /\ inv' = [inv EXCEPT ![p].pc = "parse", ![p].fileContent = files[path],
                                   ![p].steps = Step(p, "read")]
             /\ UNCHANGED files
  /\ UNCHANGED <<now, runs, pureVars>>

\* fs.existsSync and fs.readFileSync of the input file, for an invocation
\* whose files no other process touches while it runs: the read is one step
ReadInput(p) ==
  /\ inv[p].pc = "init" /\ ~inv[p].help
  /\ LET path == Path(inv[p].options.inputFile)
     IN IF path \notin DOMAIN files
        THEN inv' = [inv EXCEPT ![p].pc = "catch", ![p].error = "FileNotFound"]
        ELSE inv' = [inv EXCEPT ![p].pc = "parse", ![p].fileContent = files[path],
                                ![p].steps = Step(p, "read")]
  /\ UNCHANGED <<files, now, runs, pureVars>>

\* JSON.parse and the Array.isArray test
ParseInput(p) ==
  /\ inv[p].pc = "parse"
  /\ LET r == JSONParse(inv[p].fileContent)
     IN IF ~r.ok
        THEN inv' = [inv EXCEPT ![p].pc = "catch", ![p].error = "InvalidJSON"]
        ELSE IF ~IsArray(r.v)
        THEN inv' = [inv EXCEPT ![p].pc = "catch", ![p].error = "InvalidShape"]
        ELSE inv' = [inv EXCEPT ![p].pc = "transform", ![p].data = r.v.a,
                                ![p].steps = Step(p, "parse")]
  /\ UNCHANGED <<files, now, runs, pureVars>>

\* Transform that writes the deduplicated records out before it sorts them
TransformEarlyWrite(p) ==
  /\ inv[p].pc = "transform"
  /\ LET res == IF inv[p].variant = "simple" THEN dedupeAndSortMeta(inv[p].data)
                ELSE dedupeAndSort(inv[p].options.validateSchema, inv[p].data)
         acc == ForEach(inv[p].variant, inv[p].options.validateSchema, inv[p].data, 1,
                        LoopStart)
         path == OutputPath(inv[p].options)
     IN /\ files' = WriteFile(files, path, NewContent(acc.unique))
        /\ IF res.threw
           THEN inv' = [inv EXCEPT ![p].pc = "catch", ![p].error = "TypeError",
                                   ![p].writes = Append(@, [kind |-> "output", path |-> path,
                                                            text |-> NewContent(acc.unique)])]
           ELSE inv' = [inv EXCEPT ![p].pc = IF inv[p].options.createBackup
                                             THEN "backup" ELSE "write",
                                   ![p].results = res,
                                   ![p].steps = Step(p, "transform"),
                                   ![p].writes = Append(@, [kind |-> "output", path |-> path,
                                                            text |-> NewContent(acc.unique)])]
  /\ UNCHANGED <<now, runs, pureVars>>

\* the dedupe-and-sort step
Transform(p) ==
  /\ inv[p].pc = "transform"
  /\ LET res == IF inv[p].variant = "simple" THEN dedupeAndSortMeta(inv[p].data)
                ELSE dedupeAndSort(inv[p].options.validateSchema, inv[p].data)
     IN IF res.threw
        THEN inv' = [inv EXCEPT ![p].pc = "catch", ![p].error = "TypeError"]
        ELSE inv' = [inv EXCEPT ![p].pc = IF inv[p].options.createBackup
                                          THEN "backup" ELSE "write",
                                ![p].results = res,
                                ![p].steps = Step(p, "transform")]
  /\ UNCHANGED <<files, now, runs, pureVars>>

\* Backup that saves the transformed content instead of the content read
BackupTransformed(p) ==
  /\ inv[p].pc = "backup"
  /\ \E ts \in now..MaxClock :
       LET path == BackupPath(inv[p].options.inputFile, ts)
           text == NewContent(inv[p].results.unique)
       IN /\ now' = ts
          /\ files' = WriteFile(files, path, text)
          /\ inv' = [inv EXCEPT ![p].pc = "write",
                                ![p].steps = Step(p, "backup"),
                                ![p].writes = Append(@, [kind |-> "backup", path |-> path,
                                                         text |-> text])]
  /\ UNCHANGED <<runs, pureVars>>

\* if (createBackup) fs.writeFileSync(`${inputFile}.backup.${Date.now()}`, fileContent)
Backup(p) ==
  /\ inv[p].pc = "backup"
  /\ \E ts \in now..MaxClock :
       LET path == BackupPath(inv[p].options.inputFile, ts)
       IN /\ now' = ts
          /\ files' = WriteFile(files, path, inv[p].fileContent)
          /\ inv' = [inv EXCEPT ![p].pc = "write",
                                ![p].steps = Step(p, "backup"),
                                ![p].writes = Append(@, [kind |-> "backup", path |-> path,
                                                         text |-> inv[p].fileContent])]
  /\ UNCHANGED <<runs, pureVars>>

\* the report of dedupeAndSortMeta after the write throws: the list of the
\* removed duplicates interpolates their ids and names, the "ID range" line
\* the ids of the first and of the last record written
SimpleReportThrows(results) ==
  \/ \E j \in 1..Len(results.duplicates) :
       \/ ToStringThrows(results.duplicates[j].id)
       \/ ToStringThrows(results.duplicates[j].name)
  \/ /\ results.unique # <<>>
     /\ \/ ToStringThrows(Get(results.unique[1], K_id))
        \/ ToStringThrows(Get(results.unique[Len(results.unique)], K_id))

\* the report of MetaProcessor.process after the write throws: the list of
\* the removed duplicates interpolates their ids and names
MetaReportThrows(results) ==
  \E j \in 1..Len(results.duplicates) :
    \/ ToStringThrows(results.duplicates[j].id)
    \/ ToStringThrows(results.duplicates[j].name)

\* invocation p after fs.writeFileSync(path, newContent) has returned: the
\* report, and then the return or the TypeError of the report
Reported(p, path, newContent) ==
  IF (IF inv[p].variant = "simple" THEN SimpleReportThrows(inv[p].results)
      ELSE MetaReportThrows(inv[p].results))
  THEN [inv[p] EXCEPT !.pc = "catch", !.error = "TypeError",
                      !.steps = Step(p, "write"),
                      !.writes = Append(@, [kind |-> "output", path |-> path,
                                            text |-> newContent])]
  ELSE [inv[p] EXCEPT !.pc = "done", !.outcome = "returned",
                      !.exitStatus = IF inv[p].mode = "cli" THEN "0" ELSE "none",
                      !.steps = Step(p, "write"),
                      !.writes = Append(@, [kind |-> "output", path |-> path,
                                            text |-> newContent])]

\* fs.writeFileSync(outputFile, newContent), the report and the return, for
\* an invocation whose files no other process touches while it runs: the
\* truncation and the write are one step
WriteOutput(p) ==
  /\ inv[p].pc = "write"
  /\ LET path == OutputPath(inv[p].options)
         newContent == NewContent(inv[p].results.unique)
     IN /\ files' = WriteFile(files, path, newContent)
        /\ inv' = [inv EXCEPT ![p] = Reported(p, path, newContent)]
  /\ UNCHANGED <<now, runs, pureVars>>

\* CatchResult that ignores exitOnError
CatchAlwaysExits(variant, mode, exitOnError) == [outcome |-> "exited", exitStatus |-> "1"]

\* what the catch block ends in: process.exit(1), or the error thrown on to
\* the caller, which in the main module is process().catch with process.exit(1)
CatchResult(variant, mode, exitOnError) ==
  IF variant = "simple" THEN [outcome |-> "exited", exitStatus |-> "1"]
  ELSE IF exitOnError THEN [outcome |-> "exited", exitStatus |-> "1"]
  ELSE [outcome |-> "rejected", exitStatus |-> IF mode = "cli" THEN "1" ELSE "none"]

\* the catch block
Catch(p) ==
  /\ inv[p].pc = "catch"
  /\ LET r == CatchResult(inv[p].variant, inv[p].mode, inv[p].options.exitOnError)
     IN inv' = [inv EXCEPT ![p].pc = "done", ![p].outcome = r.outcome,
                           ![p].exitStatus = r.exitStatus]
  /\ UNCHANGED <<files, now, runs, pureVars>>

\* the normalizer is run again, in place, on the file it wrote
Rerun(p) ==
  /\ inv[p].pc = "done" /\ inv[p].outcome = "returned"
  /\ runs < MaxRuns
  /\ runs' = runs + 1
  /\ LET written == OutputPath(inv[p].options).name
         options == [inv[p].options EXCEPT !.inputFile = written, !.outputFile = "null"]
     IN inv' = [inv EXCEPT ![p] =
                  [NewInvocation(inv[p].variant, inv[p].mode, FALSE, options)
                   EXCEPT !.startFiles = files,
                          !.prev = [ran |-> TRUE,
                                    written |-> inv[p].writes[Len(inv[p].writes)].text,
                                    results |-> inv[p].results]]]
  /\ UNCHANGED <<files, now, pureVars>>

Next ==
  \/ \E p \in DOMAIN inv : Help(p)
  \/ \E p \in DOMAIN inv : ReadInput(p)
  \/ \E p \in DOMAIN inv : ParseInput(p)
  \/ \E p \in DOMAIN inv : Transform(p)
  \/ \E p \in DOMAIN inv : Backup(p)
  \/ \E p \in DOMAIN inv : WriteOutput(p)
  \/ \E p \in DOMAIN inv : Catch(p)
  \/ \E p \in DOMAIN inv : Rerun(p)

Spec == Init /\ [][Next]_vars

(***************************************************************************)
(* The two variants run side by side: the simple script in place on        *)
(* meta.json, MetaProcessor in place on a copy of it, with the same        *)
(* createBackup.                                                           *)
(***************************************************************************)
InitPair ==
  /\ \/ files = NoFiles
     \/ \E text \in FileContents :
          files = WriteFile(WriteFile(NoFiles, Path(InName), text), Path(CopyName), text)
  /\ now = 1
  /\ \E b \in BOOLEAN, validate \in {"unset", "false"}, exitOnError \in {"unset", "false"} :
       LET raw == [inputFile |-> CopyName, outputFile |-> "unset",
                   createBackup |-> IF b THEN "true" ELSE "unset",
                   validateSchema |-> validate, exitOnError |-> exitOnError]
       IN inv = <<[NewInvocation("simple", "cli", FALSE, SimpleOptions(InName, b))
                   EXCEPT !.startFiles = files],
                  [NewInvocation("meta", IF exitOnError = "false" THEN "lib" ELSE "cli",
                                 FALSE, Constructor(raw))
                   EXCEPT !.startFiles = files]>>
  /\ runs = 1
  /\ PureIdle

\* the steps of the invocations, each run once
NextRun ==
  \/ \E p \in DOMAIN inv : ReadInput(p)
  \/ \E p \in DOMAIN inv : ParseInput(p)
  \/ \E p \in DOMAIN inv : Transform(p)
  \/ \E p \in DOMAIN inv : Backup(p)
  \/ \E p \in DOMAIN inv : WriteOutput(p)
  \/ \E p \in DOMAIN inv : Catch(p)

SpecPair == InitPair /\ [][NextRun]_vars

(***************************************************************************)
(* Single runs on longer arrays of a few elements: records that share an   *)
(* id, with and without a name, and elements that are skipped.             *)
(***************************************************************************)
SumItems ==
  { JNull, Rec(JUndef, JStr(S_N1)), Rec(JStr(S_A), JUndef),
    Rec(JStr(S_A), JStr(S_N1)), Rec(JStr(S_b), JStr(S_N2)) }

SumContents ==
  {Stringify(FALSE, JArr(a), 0) : a \in SeqUpTo(SumItems, MaxSumLen)} \cup BadTexts

\* the simple script, MetaProcessor as the command line starts it, and
\* MetaProcessor with a backup and without schema validation
SumInvocations ==
  { NewInvocation("simple", "cli", FALSE, SimpleOptions(InName, FALSE)),
    NewInvocation("meta", "cli", FALSE,
                  Constructor([inputFile |-> "unset", outputFile |-> "unset",
                               createBackup |-> "unset", validateSchema |-> "unset",
                               exitOnError |-> "unset"])),
    NewInvocation("meta", "cli", FALSE,
                  Constructor([inputFile |-> "unset", outputFile |-> "unset",
                               createBackup |-> "true", validateSchema |-> "false",
                               exitOnError |-> "unset"])) }

InitSummary ==
  /\ \E text \in SumContents : files = WriteFile(NoFiles, Path(InName), text)
  /\ now = 1
  /\ \E i \in SumInvocations : inv = <<[i EXCEPT !.startFiles = files]>>
  /\ runs = 1
  /\ PureIdle

SpecSummary == InitSummary /\ [][NextRun]_vars

(***************************************************************************)
(* Two invocations run at the same time, in place, on the same file.  The  *)
(* other process sees a read and a write as they happen: readFileSync      *)
(* reads at its position in the file until a read returns nothing,         *)
(* writeFileSync truncates the file when it opens it and then writes its   *)
(* bytes from position 0 on.                                               *)
(***************************************************************************)
\* the invocations that run at the same time: the simple script and
\* MetaProcessor, both with or both without a backup
ConcPairs ==
  {<<NewInvocation("simple", "cli", FALSE, SimpleOptions(InName, b)),
     NewInvocation("meta", "cli", FALSE,
                   Constructor([inputFile |-> InName, outputFile |-> "unset",
                                createBackup |-> IF b THEN "true" ELSE "unset",
                                validateSchema |-> "unset", exitOnError |-> "unset"]))>>
     : b \in BOOLEAN}

\* the array elements of the file the two invocations run on
ConcItems ==
  { JNull, Rec(JNum(5), JUndef), Rec(JStr(S_b), JStr(S_N1)),
    Rec(JStr(S_A), JUndef), Rec(JStr(S_A), JStr(S_N2)), Rec(NoString, JUndef) }

\* the contents of the file the two invocations run on
ConcContents ==
  {ArrayOfTexts(a) : a \in SeqUpTo({Stringify(FALSE, item, 0) : item \in ConcItems}
                                     \cup {EscapedIdText}, MaxConcLen)}
    \cup BadTexts \cup NonArrayTexts

InitConc ==
  /\ \/ files = NoFiles
     \/ \E text \in ConcContents : files = WriteFile(NoFiles, Path(InName), text)
  /\ now = 1
  /\ \E pair \in ConcPairs :
       inv = <<[pair[1] EXCEPT !.startFiles = files], [pair[2] EXCEPT !.startFiles = files]>>
  /\ runs = 1
  /\ PureIdle

\* the invocations as they are after invocation p has taken a step on a
\* file: a read or a write of another invocation that is under way in one of
\* the states pcs is marked as mixed with the step
Mixing(p, pcs, after) ==
  [q \in DOMAIN inv |->
     IF q # p /\ inv[q].pc \in pcs THEN [after[q] EXCEPT !.mixed = TRUE] ELSE after[q]]

\* the most bytes that one read of fs.readFileSync returns
ReadSize == 8192

\* one read of fs.readFileSync at the position reached, which is the number
\* of bytes read so far: the bytes that the file holds now from that
\* position on, ReadSize of them at most; the read that returns no byte ends
\* readFileSync, which decodes the bytes read
ReadCall(p, buffer) ==
  LET cur == Bytes(files[Path(inv[p].options.inputFile)])
      rest == Len(cur) - Len(buffer)
      piece == SubSeq(cur, Len(buffer) + 1,
                      Len(buffer) + (IF rest > ReadSize THEN ReadSize ELSE rest))
  IN inv' = Mixing(p, {"writing"},
                   IF piece = <<>>
                   THEN [inv EXCEPT ![p].pc = "parse", ![p].fileContent = Text(buffer),
                                    ![p].steps = Step(p, "read")]
                   ELSE [inv EXCEPT ![p].pc = "reading", ![p].buffer = buffer \o piece])

\* fs.existsSync, then the open and the first read of fs.readFileSync
ReadFirst(p) ==
  /\ inv[p].pc = "init" /\ ~inv[p].help
  /\ LET path == Path(inv[p].options.inputFile)
     IN IF path \notin DOMAIN files
        THEN inv' = [inv EXCEPT ![p].pc = "catch", ![p].error = "FileNotFound"]
        ELSE ReadCall(p, <<>>)
  /\ UNCHANGED <<files, now, runs, pureVars>>

\* a further read of fs.readFileSync
ReadMore(p) ==
  /\ inv[p].pc = "reading"
  /\ ReadCall(p, inv[p].buffer)
  /\ UNCHANGED <<files, now, runs, pureVars>>

\* the file after the bytes of text are written at position 0 of a file that
\* holds cur
Overwrite(cur, text) ==
  LET b == Bytes(text)
      old == Bytes(cur)
  IN Text(b \o SubSeq(old, Len(b) + 1, Len(old)))

\* Date.now() and the open of fs.writeFileSync(backupPath, fileContent),
\* which creates the file or truncates it
BackupOpen(p) ==
  /\ inv[p].pc = "backup"
  /\ \E ts \in now..MaxClock :
       LET path == BackupPath(inv[p].options.inputFile, ts)
       IN /\ now' = ts
          /\ files' = WriteFile(files, path, <<>>)
          /\ inv' = Mixing(p, {"backingup"},
                           [inv EXCEPT ![p].pc = "backingup", ![p].backupPath = path])
  /\ UNCHANGED <<runs, pureVars>>

\* the write of fs.writeFileSync(backupPath, fileContent)
BackupWrite(p) ==
  /\ inv[p].pc = "backingup"
  /\ LET path == inv[p].backupPath
     IN /\ files' = WriteFile(files, path, Overwrite(files[path], inv[p].fileContent))
        /\ inv' = Mixing(p, {"backingup"},
                         [inv EXCEPT ![p].pc = "write",
                                     ![p].steps = Step(p, "backup"),
                                     ![p].writes = Append(@, [kind |-> "backup", path |-> path,
                                                              text |-> inv[p].fileContent])])
  /\ UNCHANGED <<now, runs, pureVars>>

\* WriteOpen that opens the file without truncating it
WriteOpenKeep(p) ==
  /\ inv[p].pc = "write"
  /\ inv' = Mixing(p, {"reading", "writing"}, [inv EXCEPT ![p].pc = "writing"])
  /\ UNCHANGED <<files, now, runs, pureVars>>

\* the open of fs.writeFileSync(outputFile, newContent), which creates the
\* file or truncates it
WriteOpen(p) ==
  /\ inv[p].pc = "write"
  /\ files' = WriteFile(files, OutputPath(inv[p].options), <<>>)
  /\ inv' = Mixing(p, {"reading", "writing"}, [inv EXCEPT ![p].pc = "writing"])
  /\ UNCHANGED <<now, runs, pureVars>>

\* the write of fs.writeFileSync(outputFile, newContent), then the report
\* and the return
WriteAll(p) ==
  /\ inv[p].pc = "writing"
  /\ LET path == OutputPath(inv[p].options)
         newContent == NewContent(inv[p].results.unique)
     IN /\ files' = WriteFile(files, path, Overwrite(files[path], newContent))
        /\ inv' = Mixing(p, {"reading", "writing"},
                         [inv EXCEPT ![p] = Reported(p, path, newContent)])
  /\ UNCHANGED <<now, runs, pureVars>>

NextConc ==
  \/ \E p \in DOMAIN inv : ReadFirst(p)
  \/ \E p \in DOMAIN inv : ReadMore(p)
  \/ \E p \in DOMAIN inv : ParseInput(p)
  \/ \E p \in DOMAIN inv : Transform(p)
  \/ \E p \in DOMAIN inv : BackupOpen(p)
  \/ \E p \in DOMAIN inv : BackupWrite(p)
  \/ \E p \in DOMAIN inv : WriteOpen(p)
  \/ \E p \in DOMAIN inv : WriteAll(p)
  \/ \E p \in DOMAIN inv : Catch(p)

SpecConc == InitConc /\ [][NextConc]_vars

(***************************************************************************)
(* The dedupe-and-sort step applied to in-memory arrays.                   *)
(***************************************************************************)
InitDedupe ==
  /\ fn = "none"
  /\ arg \in SeqUpTo(PureItems, MaxPureLen)
  /\ ret = <<>>
  /\ PipeIdle

ApplySimple ==
  /\ fn = "none"
  /\ fn' = "dedupeAndSortMeta"
  /\ ret' = [validate |-> FALSE, res |-> dedupeAndSortMeta(arg)]
  /\ UNCHANGED <<arg, pipeVars>>

ApplyMeta ==
  /\ fn = "none"
  /\ fn' = "dedupeAndSort"
  /\ \E validate \in BOOLEAN :
       ret' = [validate |-> validate, res |-> dedupeAndSort(validate, arg)]
  /\ UNCHANGED <<arg, pipeVars>>

NextDedupe == ApplySimple \/ ApplyMeta

SpecDedupe == InitDedupe /\ [][NextDedupe]_vars

(***************************************************************************)
(* formatJSON applied to in-memory values.                                 *)
(***************************************************************************)
InitFormat ==
  /\ fn = "none"
  /\ arg \in FmtInputs
  /\ ret = <<>>
  /\ PipeIdle

ApplyFormat ==
  /\ fn = "none"
  /\ fn' = "formatJSON"
  /\ ret' = formatJSON(arg)
  /\ UNCHANGED <<arg, pipeVars>>

NextFormat == ApplyFormat

SpecFormat == InitFormat /\ [][NextFormat]_vars

(***************************************************************************)
(* Properties of the dedupe-and-sort step (SpecDedupe).                    *)
(***************************************************************************)
\* the step was applied to arg
Applied == fn \in {"dedupeAndSortMeta", "dedupeAndSort"}

\* the step was applied to arg and returned
Returned == Applied /\ ~ret.res.threw

\* element k of data is a non-null object with a truthy id
ValidAt(data, k) ==
  Truthy(data[k]) /\ TypeOf(data[k]) = "object" /\ Truthy(Get(data[k], K_id))

\* the indexes of the valid elements of data that carry the id
Carriers(data, id) == {k \in 1..Len(data) : ValidAt(data, k) /\ Get(data[k], K_id) = id}

\* the smallest one
FirstCarrier(data, id) ==
  CHOOSE k \in Carriers(data, id) : \A m \in Carriers(data, id) : k <= m

\* the ids of the records of a sequence
IdsOf(u) == {Get(u[i], K_id) : i \in 1..Len(u)}

\* C1: once the dedupe-and-sort step of either variant has returned, no two
\* records of its output have the same raw id, and every output record is a
\* non-null object with a truthy id.
C1_UniqueIds ==
  Returned =>
    LET u == ret.res.unique
    IN /\ \A i, j \in 1..Len(u) : i # j => Get(u[i], K_id) # Get(u[j], K_id)
       /\ \A i \in 1..Len(u) :
            Truthy(u[i]) /\ TypeOf(u[i]) = "object" /\ Truthy(Get(u[i], K_id))

\* an input with a repeated id and with two ids that differ only by case,
\* both of which are in the output
C1_Witness ==
  /\ Returned
  /\ Len(ret.res.duplicates) >= 1
  /\ {JStr(S_a), JStr(S_A)} \subseteq IdsOf(ret.res.unique)

\* C2: the output is ascending by id.toLowerCase() under code-unit order, and
\* two records whose lower-cased ids are equal keep the order they had in the
\* input.
C2_SortedStable ==
  Returned =>
    LET u == ret.res.unique
    IN /\ \A i \in 1..Len(u) - 1 :
            ~StrLess(toLowerCase(Get(u[i + 1], K_id).s), toLowerCase(Get(u[i], K_id).s))
       /\ \A i, j \in 1..Len(u) :
            (i < j /\ Len(u) >= 2
               /\ toLowerCase(Get(u[i], K_id).s) = toLowerCase(Get(u[j], K_id).s))
            => FirstCarrier(arg, Get(u[i], K_id)) < FirstCarrier(arg, Get(u[j], K_id))

\* the sort moved a record to the front, and two records with equal lower-cased
\* ids, "A" before "a" in the input, follow each other in that order
C2_Witness ==
  /\ Returned
  /\ Len(arg) = 3 /\ Len(ret.res.unique) = 3
  /\ Get(arg[1], K_id) = JStr(S_ab)
  /\ Get(ret.res.unique[1], K_id) = JStr(S_A)
  /\ Get(ret.res.unique[2], K_id) = JStr(S_a)
  /\ Get(ret.res.unique[3], K_id) = JStr(S_ab)

\* C3: for every raw id that a valid element of the input carries, the output
\* has exactly one record with that id, and it is the element of smallest
\* index that carries it; ids that differ only by case are both retained.
C3_FirstWins ==
  Applied =>
    \A k \in 1..Len(arg) :
      ValidAt(arg, k) =>
        LET id == Get(arg[k], K_id)
            u == ret.res.unique
        IN /\ ~ret.res.threw
           /\ Cardinality({i \in 1..Len(u) : Get(u[i], K_id) = id}) = 1
           /\ \E i \in 1..Len(u) : u[i] = arg[FirstCarrier(arg, id)]

\* C9: every record of the output is an element of the input, with the same
\* fields and the same values.
C9_FieldsPreserved ==
  Returned =>
    \A i \in 1..Len(ret.res.unique) :
      /\ ret.res.unique[i] \in {arg[k] : k \in 1..Len(arg)}
      /\ ret.res.unique[i] = arg[FirstCarrier(arg, Get(ret.res.unique[i], K_id))]

\* schema validation found a kept record that lacks required fields, and the
\* record is in the output
C9_Witness ==
  /\ fn = "dedupeAndSort" /\ ~ret.res.threw /\ ret.validate
  /\ ret.res.schemaViolations >= 1
  /\ Len(ret.res.unique) >= 2
  /\ \E i \in 1..Len(ret.res.unique) : ~Truthy(Get(ret.res.unique[i], K_name))

(***************************************************************************)
(* Properties of formatJSON (SpecFormat).                                  *)
(***************************************************************************)
\* the array the input is about: the input itself, or the tags of its record
TargetArray(value) ==
  IF value.a # <<>> /\ value.a[1].t = "obj" THEN Get(value.a[1], K_tags) ELSE value

\* the text of the innermost array of a text: from the last "[" to the first
\* "]" behind it
ArrayText(text) ==
  LET open == CHOOSE i \in 1..Len(text) :
                text[i].k = "[" /\ \A j \in i + 1..Len(text) : text[j].k # "["
      close == CHOOSE i \in open..Len(text) :
                 text[i].k = "]" /\ \A j \in open..i - 1 : text[j].k # "]"
  IN SubSeq(text, open, close)

\* an array of at most 5 strings, each shorter than 50 characters
SmallStringArray(value) ==
  /\ Len(value.a) <= CompactMaxItems
  /\ \A i \in 1..Len(value.a) :
       value.a[i].t = "str" /\ Len(value.a[i].s) < CompactMaxChars

\* no line break in a text
OneLine(text) == \A i \in 1..Len(text) : text[i].k # "nl"

\* every element on a line of its own, 2 spaces deeper than the closing bracket
MultiLine(text, n) ==
  LET breaks == SelectSeq(text, LAMBDA tok : tok.k = "nl")
  IN /\ Len(breaks) = n + 1
     /\ \A i \in 1..n : breaks[i].n = breaks[n + 1].n + FormatGap

\* C8: formatJSON writes an array of at most 5 strings, each shorter than 50
\* characters, on a single line, and every other array on several lines with
\* 2-space indentation.
C8_CompactRule ==
  fn = "formatJSON" =>
    LET value == TargetArray(arg)
        text == ArrayText(ret)
    IN IF SmallStringArray(value) THEN OneLine(text)
       ELSE MultiLine(text, Len(value.a))

(***************************************************************************)
(* Properties of the pipeline (Spec).                                      *)
(***************************************************************************)
\* the writes of a kind that an invocation has made
WritesOf(i, kind) == SelectSeq(i.writes, LAMBDA w : w.kind = kind)

\* s is a prefix of t
IsPrefix(s, t) == Len(s) <= Len(t) /\ SubSeq(t, 1, Len(s)) = s

\* the backup files of a file system
Backups(fs) == {q \in DOMAIN fs : q.ts > 0}

\* the whole transform of the parsed collection of an invocation
WholeTransform(i) ==
  IF i.variant = "simple" THEN dedupeAndSortMeta(i.data)
  ELSE dedupeAndSort(i.options.validateSchema, i.data)

\* C4: a run that ends in FileNotFound, InvalidJSON or InvalidShape has written
\* no file: the file system is what it was when the run began, whatever
\* createBackup is, in both variants.
C4_FatalWritesNothing ==
  \A p \in DOMAIN inv :
    inv[p].error \in {"FileNotFound", "InvalidJSON", "InvalidShape"} =>
      inv[p].writes = <<>> /\ files = inv[p].startFiles

\* a MetaProcessor run with createBackup that ended in InvalidShape
C4_Witness ==
  \E p \in DOMAIN inv :
    /\ inv[p].pc = "done" /\ inv[p].error = "InvalidShape"
    /\ inv[p].variant = "meta" /\ inv[p].options.createBackup

\* C5: the steps of a run occur in the order read, parse, transform, optional
\* backup, write; the output is written at most once, after the transform, and
\* what is written is the whole transformed collection.
C5_StepOrder ==
  \A p \in DOMAIN inv :
    LET i == inv[p]
        outs == WritesOf(i, "output")
    IN /\ \/ IsPrefix(i.steps, <<"read", "parse", "transform", "backup", "write">>)
          \/ IsPrefix(i.steps, <<"read", "parse", "transform", "write">>)
       /\ Len(outs) <= 1
       /\ Len(i.writes) = Len(SelectSeq(i.steps, LAMBDA st : st \in {"backup", "write"}))
       /\ \A k \in 1..Len(outs) :
            /\ i.steps[Len(i.steps)] = "write"
            /\ ~WholeTransform(i).threw
            /\ outs[k].text = NewContent(WholeTransform(i).unique)
            /\ files[outs[k].path] = outs[k].text

\* a run with a backup that went through all five steps and whose sort
\* changed the order of the records
C5_Witness ==
  \E p \in DOMAIN inv :
    /\ inv[p].pc = "done"
    /\ inv[p].steps = <<"read", "parse", "transform", "backup", "write">>
    /\ Len(inv[p].results.unique) = 2
    /\ inv[p].results.unique # inv[p].data

\* C6: after a successful run with createBackup, a backup file of the input
\* file holds exactly the content read from the input file, also when the input
\* was overwritten in place; without createBackup the run writes no backup.
C6_Backup ==
  \A p \in DOMAIN inv :
    (inv[p].pc = "done" /\ inv[p].outcome = "returned") =>
      LET i == inv[p]
          input == i.options.inputFile
          backups == WritesOf(i, "backup")
      IN IF i.options.createBackup
         THEN /\ Len(backups) = 1
              /\ \E ts \in 1..MaxClock :
                   /\ backups[1].path = BackupPath(input, ts)
                   /\ BackupPath(input, ts) \in DOMAIN files
                   /\ files[BackupPath(input, ts)] = i.startFiles[Path(input)]
         ELSE /\ backups = <<>>
              /\ Backups(files) = Backups(i.startFiles)
              /\ \A q \in Backups(files) : files[q] = i.startFiles[q]

\* a successful in-place run with createBackup: the input file has changed and
\* the backup holds what it held before
C6_Witness ==
  \E p \in DOMAIN inv :
    /\ inv[p].pc = "done" /\ inv[p].outcome = "returned"
    /\ inv[p].options.createBackup /\ inv[p].options.outputFile = "null"
    /\ files[Path(inv[p].options.inputFile)] # inv[p].startFiles[Path(inv[p].options.inputFile)]
    /\ \E ts \in 1..MaxClock :
         /\ BackupPath(inv[p].options.inputFile, ts) \in DOMAIN files
         /\ files[BackupPath(inv[p].options.inputFile, ts)]
              = inv[p].startFiles[Path(inv[p].options.inputFile)]

\* C7: a run on the file that a successful run wrote succeeds, writes the same
\* text again, removes no duplicate, skips no record, and its final count is
\* its original count.
C7_Idempotent ==
  \A p \in DOMAIN inv :
    inv[p].prev.ran =>
      /\ inv[p].error = "none"
      /\ inv[p].pc = "done" =>
           /\ inv[p].outcome = "returned"
           /\ WritesOf(inv[p], "output")[1].text = inv[p].prev.written
           /\ files[OutputPath(inv[p].options)] = inv[p].prev.written
           /\ inv[p].results.duplicatesRemoved = 0
           /\ inv[p].results.duplicates = <<>>
           /\ inv[p].results.original - inv[p].results.final
                - inv[p].results.duplicatesRemoved = 0
           /\ inv[p].results.final = inv[p].results.original
           /\ inv[p].results.original = inv[p].prev.results.final

\* C10: when a run of MetaProcessor.process fails, the process exits with
\* status 1 if exitOnError is on, and otherwise is not ended and the caller gets
\* a rejection; the simple script exits with status 1 on every failure; a
\* successful command-line run and --help end with status 0.
C10_FailurePolicy ==
  \A p \in DOMAIN inv :
    inv[p].pc = "done" =>
      LET i == inv[p]
      IN /\ (i.error # "none" /\ i.variant = "meta" /\ i.options.exitOnError)
              => (i.outcome = "exited" /\ i.exitStatus = "1")
         /\ (i.error # "none" /\ i.variant = "meta" /\ ~i.options.exitOnError)
              => (i.outcome = "rejected" /\ (i.mode = "lib" => i.exitStatus = "none"))
         /\ (i.error # "none" /\ i.variant = "simple")
              => (i.outcome = "exited" /\ i.exitStatus = "1")
         /\ (i.error = "none" /\ i.mode = "cli") => i.exitStatus = "0"
         /\ i.help => (i.outcome = "help" /\ i.exitStatus = "0")
         /\ i.outcome \in {"exited", "rejected"} <=> i.error # "none"

\* a MetaProcessor run with exitOnError off ended in InvalidJSON: the caller
\* got the rejection and the process was not ended
C10_Witness ==
  \E p \in DOMAIN inv :
    /\ inv[p].pc = "done" /\ inv[p].error = "InvalidJSON"
    /\ inv[p].variant = "meta" /\ ~inv[p].options.exitOnError
    /\ inv[p].outcome = "rejected" /\ inv[p].exitStatus = "none"

\* an invocation has taken a step
HasStep(i, name) == \E k \in 1..Len(i.steps) : i.steps[k] = name

\* the ids of the valid elements of a collection
ValidIds(data) == {Get(data[k], K_id) : k \in {j \in 1..Len(data) : ValidAt(data, j)}}

\* C11: a run whose input file holds a JSON array never aborts, whatever the
\* elements are: it ends without an error, returns its summary and has
\* written the output, which holds no invalid element and one record for
\* every id of a valid element.
C11_NonFatalNeverAbort ==
  \A p \in DOMAIN inv :
    LET i == inv[p]
        outs == WritesOf(i, "output")
    IN HasStep(i, "parse") =>
         /\ i.error = "none"
         /\ i.pc = "done" =>
              /\ i.outcome = "returned"
              /\ Len(outs) = 1
              /\ outs[1].text = NewContent(i.results.unique)
              /\ \A k \in 1..Len(i.results.unique) : ValidAt(i.results.unique, k)
              /\ IdsOf(i.results.unique) = ValidIds(i.data)

\* a record lacks one of the fields id, name, version, description, links,
\* logo, tags
MissingRequired(item) ==
  \E f \in 1..Len(RequiredFields) : ~Truthy(Get(item, RequiredFields[f]))

\* the number of elements of a collection that are skipped
Skipped(data) == Cardinality({k \in 1..Len(data) : ~ValidAt(data, k)})

\* C12: when MetaProcessor.dedupeAndSort returns with validateSchema enabled,
\* every valid element that lacks a required field and is the first with its
\* id is in the output, and schemaViolations is the number of skipped elements
\* plus the number of records of the output that lack a required field (a
\* record without links.github or with tags that is not an array adds
\* nothing); with validateSchema disabled schemaViolations is the number of
\* skipped elements.
C12_SchemaAccounting ==
  (Returned /\ fn = "dedupeAndSort") =>
    LET u == ret.res.unique
        keptMissing == Cardinality({i \in 1..Len(u) : MissingRequired(u[i])})
    IN IF ret.validate
       THEN /\ \A k \in 1..Len(arg) :
                 (/\ ValidAt(arg, k) /\ MissingRequired(arg[k])
                  /\ FirstCarrier(arg, Get(arg[k], K_id)) = k)
                   => \E i \in 1..Len(u) : u[i] = arg[k]
            /\ ret.res.schemaViolations = Skipped(arg) + keptMissing
       ELSE ret.res.schemaViolations = Skipped(arg)

(***************************************************************************)
(* Properties of the two variants side by side (SpecPair).                 *)
(***************************************************************************)
\* both invocations have ended
BothDone == \A p \in DOMAIN inv : inv[p].pc = "done"

\* the texts an invocation has written, in order, for a kind of write
TextsOf(i, kind) == [k \in 1..Len(WritesOf(i, kind)) |-> WritesOf(i, kind)[k].text]

\* C13: run on the same file content, in place and with the same
\* createBackup, the simple script and MetaProcessor.process end alike: both
\* succeed or both fail with the same kind of error; they write the same
\* output text (and the same backup text), leave equal file contents, and
\* report the same original, duplicatesRemoved, final and duplicates,
\* whether validateSchema is enabled or not.
C13_SameContract ==
  (Len(inv) = 2 /\ BothDone) =>
    LET s == inv[1]
        m == inv[2]
    IN /\ s.error = m.error
       /\ (s.outcome = "returned") = (m.outcome = "returned")
       /\ (s.outcome # "returned") => (m.outcome \in {"exited", "rejected"})
       /\ TextsOf(s, "output") = TextsOf(m, "output")
       /\ TextsOf(s, "backup") = TextsOf(m, "backup")
       /\ (Path(InName) \in DOMAIN files) = (Path(CopyName) \in DOMAIN files)
       /\ (Path(InName) \in DOMAIN files) => files[Path(InName)] = files[Path(CopyName)]
       /\ s.outcome = "returned" =>
            /\ s.results.original = m.results.original
            /\ s.results.duplicatesRemoved = m.results.duplicatesRemoved
            /\ s.results.final = m.results.final
            /\ s.results.duplicates = m.results.duplicates

(***************************************************************************)
(* Properties of the output path (Spec).                                   *)
(***************************************************************************)
\* outputFile is given and is not inputFile
GivenOutput(options) ==
  options.outputFile # "null" /\ options.outputFile # options.inputFile

\* outputFile is a non-empty string and is not inputFile
SeparateOutput(options) ==
  options.outputFile \notin {"null", ""} /\ options.outputFile # options.inputFile

\* C14 as stated: a MetaProcessor run whose outputFile is given and differs
\* from inputFile never changes the input file, and when it has succeeded its
\* one output write went to outputFile, which holds the normalized content;
\* a successful run with no outputFile wrote the normalized content to
\* inputFile.
C14_OutputPathGiven ==
  \A p \in DOMAIN inv :
    LET i == inv[p]
        in == Path(i.options.inputFile)
        outs == WritesOf(i, "output")
        newContent == NewContent(i.results.unique)
    IN i.variant = "meta" =>
         /\ GivenOutput(i.options) =>
              /\ (in \in DOMAIN files) = (in \in DOMAIN i.startFiles)
              /\ (in \in DOMAIN files) => files[in] = i.startFiles[in]
              /\ \A k \in 1..Len(i.writes) : i.writes[k].path # in
         /\ (i.pc = "done" /\ i.outcome = "returned") =>
              /\ Len(outs) = 1
              /\ IF GivenOutput(i.options)
                 THEN /\ outs[1].path = Path(i.options.outputFile)
                      /\ Path(i.options.outputFile) \in DOMAIN files
                      /\ files[Path(i.options.outputFile)] = newContent
                 ELSE /\ outs[1].path = in
                      /\ files[in] = newContent

\* C14, amended: a MetaProcessor run whose outputFile is a non-empty string
\* that differs from inputFile never changes the input file, and when it has
\* succeeded its one output write went to outputFile, which holds the
\* normalized content; a successful run whose outputFile is not given or is
\* the empty string wrote the normalized content to inputFile.
C14_OutputPath ==
  \A p \in DOMAIN inv :
    LET i == inv[p]
        in == Path(i.options.inputFile)
        outs == WritesOf(i, "output")
        newContent == NewContent(i.results.unique)
    IN i.variant = "meta" =>
         /\ SeparateOutput(i.options) =>
              /\ (in \in DOMAIN files) = (in \in DOMAIN i.startFiles)
              /\ (in \in DOMAIN files) => files[in] = i.startFiles[in]
              /\ \A k \in 1..Len(i.writes) : i.writes[k].path # in
         /\ (i.pc = "done" /\ i.outcome = "returned") =>
              /\ Len(outs) = 1
              /\ IF SeparateOutput(i.options)
                 THEN /\ outs[1].path = Path(i.options.outputFile)
                      /\ files[Path(i.options.outputFile)] = newContent
                 ELSE /\ outs[1].path = in
                      /\ files[in] = newContent

\* a MetaProcessor run with a separate outputFile has succeeded: the output
\* file holds the normalized content, which differs from the content of the
\* input file, and the input file is as it was
C14_Witness ==
  \E p \in DOMAIN inv :
    /\ inv[p].variant = "meta" /\ inv[p].pc = "done" /\ inv[p].outcome = "returned"
    /\ inv[p].options.inputFile = InName /\ inv[p].options.outputFile = OutName
    /\ inv[p].results.duplicatesRemoved > 0
    /\ files[Path(OutName)] = NewContent(inv[p].results.unique)
    /\ files[Path(InName)] = inv[p].startFiles[Path(InName)]
    /\ files[Path(InName)] # files[Path(OutName)]

(***************************************************************************)
(* Properties of the summary (SpecSummary).                                *)
(***************************************************************************)
\* C15: in the summary of a successful run original is the length of the
\* input array, duplicatesRemoved the length of duplicates, final the number
\* of records in the file written, and original = final + duplicatesRemoved
\* + skipped elements; each duplicate descriptor has the id of the element
\* at its originalIndex, that element's name or "Unknown", and an
\* originalIndex greater than the index of the element with that id that
\* was retained; descriptors are in increasing originalIndex order.
C15_SummaryAccounting ==
  \A p \in DOMAIN inv :
    (inv[p].pc = "done" /\ inv[p].outcome = "returned") =>
      LET r == inv[p].results
          data == inv[p].data
          outs == WritesOf(inv[p], "output")
          written == JSONParse(outs[Len(outs)].text).v.a
      IN /\ r.original = Len(data)
         /\ r.duplicatesRemoved = Len(r.duplicates)
         /\ r.final = Len(written)
         /\ r.original = r.final + r.duplicatesRemoved + Skipped(data)
         /\ \A j \in 1..Len(r.duplicates) :
              LET d == r.duplicates[j]
                  k == d.originalIndex + 1
              IN /\ k \in 1..Len(data)
                 /\ ValidAt(data, k)
                 /\ d.id = Get(data[k], K_id)
                 /\ d.name = IF Truthy(Get(data[k], K_name)) THEN Get(data[k], K_name)
                             ELSE JStr(S_Unknown)
                 /\ FirstCarrier(data, d.id) < k
                 /\ \E w \in 1..Len(r.unique) : r.unique[w] = data[FirstCarrier(data, d.id)]
         /\ \A j, l \in 1..Len(r.duplicates) :
              j < l => r.duplicates[j].originalIndex < r.duplicates[l].originalIndex

\* a successful run on four elements has kept the first record, skipped an
\* element and dropped two later records with the id of the first, one with
\* a name and one without
C15_Witness ==
  \E p \in DOMAIN inv :
    /\ inv[p].pc = "done" /\ inv[p].outcome = "returned"
    /\ inv[p].results.original = 4
    /\ inv[p].results.final = 1
    /\ inv[p].results.duplicatesRemoved = 2
    /\ Skipped(inv[p].data) = 1
    /\ Len(inv[p].results.duplicates) = 2
    /\ inv[p].results.duplicates[1].name = JStr(S_N1)
    /\ inv[p].results.duplicates[2].name = JStr(S_Unknown)
    /\ inv[p].results.duplicates[1].originalIndex < inv[p].results.duplicates[2].originalIndex
    /\ inv[p].results.duplicates[2].originalIndex = 3

(***************************************************************************)
(* Properties of two invocations on the same file (SpecConc).              *)
(***************************************************************************)
\* an array element that is a template record: an object whose id is a
\* string and whose name, if it has one, is a string
TemplateRecord(item) ==
  /\ item.t = "obj"
  /\ TypeOf(Get(item, K_id)) = "string"
  /\ TypeOf(Get(item, K_name)) \in {"undefined", "string"}

\* a text that holds a JSON array of template records
ValidFile(text) ==
  /\ JSONParse(text).ok
  /\ IsArray(JSONParse(text).v)
  /\ \A i \in 1..Len(JSONParse(text).v.a) : TemplateRecord(JSONParse(text).v.a[i])

\* what a run on its own writes for a text that holds a JSON array
SingleRun(text) == NewContent(dedupeAndSortMeta(JSONParse(text).v.a).unique)

\* the text of the output write of an invocation
OutputOf(i) == WritesOf(i, "output")[Len(WritesOf(i, "output"))].text

\* the two invocations have run to their end on a file of template records,
\* and no read or write of one was under way during a read or a write of the
\* other
RanUnmixed ==
  /\ Len(inv) = 2
  /\ \A p \in DOMAIN inv : inv[p].pc = "done" /\ ~inv[p].mixed
  /\ Path(InName) \in DOMAIN inv[1].startFiles
  /\ ValidFile(inv[1].startFiles[Path(InName)])

\* C16: when two invocations have run in place on the same file holding a
\* JSON array of template records, every read and every write of theirs
\* taken in one step and the steps interleaved in any order, both have
\* succeeded with one output write each, each wrote what a run on its own
\* writes for the original content, and the file holds that content.
C16_LastWriterWins ==
  RanUnmixed =>
    /\ \A p \in DOMAIN inv :
         /\ inv[p].outcome = "returned"
         /\ inv[p].exitStatus \in {"none", "0"}
         /\ Len(WritesOf(inv[p], "output")) = 1
         /\ OutputOf(inv[p]) = SingleRun(inv[1].startFiles[Path(InName)])
    /\ files[Path(InName)] = SingleRun(inv[1].startFiles[Path(InName)])

\* both invocations read the original content, which held a duplicate, before
\* either wrote, and the file holds the one record that is left
C16_Witness ==
  /\ RanUnmixed
  /\ \A p \in DOMAIN inv :
       /\ inv[p].fileContent = inv[1].startFiles[Path(InName)]
       /\ inv[p].results.original = 2
       /\ inv[p].results.duplicatesRemoved = 1
  /\ files[Path(InName)] # inv[1].startFiles[Path(InName)]
  /\ Len(JSONParse(files[Path(InName)]).v.a) = 1

====
